---- MODULE Spec2Model ----
(***************************************************************************)
(* A model of the box-specification engine of the Ergo headless dApp       *)
(* framework: BoxSpec::verify_box (the matcher) and                        *)
(* BoxSpec::explorer_endpoint (the endpoint selector) of src/src/box_spec.rs*)
(* with the address resolution of src/src/encoding.rs.                     *)
(*                                                                         *)
(* Rust values are modelled as follows.                                    *)
(*   Option<T>      a sequence: <<>> is None, <<x>> is Some(x)             *)
(*   Range<u64>     a record [start, end]                                  *)
(*   Constant       a record [tpe, v]                                      *)
(*   Token          a record [token_id, amount], token_id a byte sequence  *)
(*   ErgoBox        a record [ergo_tree, value, additional_registers,      *)
(*                  tokens]                                                *)
(*   Result<T>      a record [tag, err, val]: tag is "Ok", "Err" or        *)
(*                  "Panic" (the call unwinds instead of returning), err   *)
(*                  the HeadlessDappError variant, val a sequence holding  *)
(*                  the payload                                            *)
(***************************************************************************)
EXTENDS Naturals, Sequences, FiniteSets, TLC

\* spec: the BoxSpec in hand
\* arg:  the argument of the last call made on it, as a sequence
\* ret:  the last call: its name (op), its result (res) and the number of
\*       times it invoked the custom predicate (pred_calls)
VARIABLES spec, arg, ret

vars == <<spec, arg, ret>>

-----------------------------------------------------------------------------
(* Bounds of the model. *)

\* nanoErg values of boxes range over 1..MaxVal, range ends over 1..MaxVal+1
MaxVal == 2
\* longest register list of a spec or a box
MaxRegs == 2
\* longest token list of a spec or a box
MaxToks == 2

-----------------------------------------------------------------------------
(* Option and Result *)

None == <<>>

Some(x) == <<x>>

IsSome(o) == o # <<>>

Unwrap(o) == o[1]

Ok(v) == [tag |-> "Ok", err |-> "", val |-> v]

Err(e, payload) == [tag |-> "Err", err |-> e, val |-> payload]

Panic(msg) == [tag |-> "Panic", err |-> msg, val |-> <<>>]

IsOk(r) == r.tag = "Ok"

Unit == <<>>

\* Every sequence over S of length at most n.
SeqUpTo(S, n) == UNION {[1..k -> S] : k \in 0..n}

-----------------------------------------------------------------------------
(* std::ops::Range<u64> *)

Range(lo, hi) == [start |-> lo, end |-> hi]

\* Range::contains of a range that includes its end.
RangeContains_Inclusive(r, v) == r.start <= v /\ v <= r.end

\* Range::contains
RangeContains(r, v) == r.start <= v /\ v < r.end

\* Iterator::last on a Range: the last value the range yields, if any
RangeLast(r) == IF r.start < r.end THEN Some(r.end - 1) ELSE None

-----------------------------------------------------------------------------
(* Addresses (src/src/encoding.rs) *)

\* What the Base58 strings of the model decode to: the network prefix of the
\* head byte, the script the address content denotes, and whether that
\* content yields a script at all.
\* "2iHk" is the P2S address of the miner fee script, "94hW" the P2S address
\* of the Math Bounty script; the others are P2PK addresses.
AddressBook ==
    [a \in {"9fM1", "3WT1", "9fM2", "8UnS", "2iHk", "94hW"} |->
        CASE a = "9fM1" -> [network |-> "Mainnet", tree |-> "tree1", script_ok |-> TRUE]
          [] a = "3WT1" -> [network |-> "Testnet", tree |-> "tree1", script_ok |-> TRUE]
          [] a = "9fM2" -> [network |-> "Mainnet", tree |-> "tree2", script_ok |-> TRUE]
          [] a = "8UnS" -> [network |-> "Mainnet", tree |-> "none", script_ok |-> FALSE]
          [] a = "2iHk" -> [network |-> "Mainnet", tree |-> "fee_tree", script_ok |-> TRUE]
          [] a = "94hW" -> [network |-> "Mainnet", tree |-> "bounty_tree", script_ok |-> TRUE]]

\* The addresses whose content is a serialized script.
P2SAddresses == {"2iHk", "94hW"}

\* AddressEncoder::parse_address_from_str: fails on a string that is no
\* address and on an address of another network
parse_address_from_str(prefix, address_str) ==
    IF address_str \in DOMAIN AddressBook /\ AddressBook[address_str].network = prefix
    THEN Ok(<<AddressBook[address_str]>>)
    ELSE Err("AddressEncoderError", <<address_str>>)

parse_address(address_str) ==
    LET address == parse_address_from_str("Mainnet", address_str)
    IN  IF IsOk(address) THEN address
        ELSE LET testnet == parse_address_from_str("Testnet", address_str)
             IN  IF IsOk(testnet) THEN testnet
                 ELSE Err("FailedToSerialize", <<address_str>>)

address_string_to_ergo_tree(address_str) ==
    LET address == parse_address(address_str)
    IN  IF ~IsOk(address) THEN address
        ELSE IF address.val[1].script_ok
             THEN Ok(<<address.val[1].tree>>)
             ELSE Err("FailedToSerialize", <<address_str>>)

-----------------------------------------------------------------------------
(* Token identifiers *)

HexDigit == <<"0", "1", "2", "3", "4", "5", "6", "7",
              "8", "9", "a", "b", "c", "d", "e", "f">>

RECURSIVE Base16(_)
\* String::from(Digest32): lower-case base16 of the bytes of the identifier
Base16(bytes) ==
    IF bytes = <<>> THEN ""
    ELSE HexDigit[(Head(bytes) \div 16) + 1] \o HexDigit[(Head(bytes) % 16) + 1]
         \o Base16(Tail(bytes))

-----------------------------------------------------------------------------
(* Custom predicates: fn(&ErgoBox) -> bool *)

ApplyPredicate(p, b) ==
    CASE p = "value_is_one" -> b.value = 1
      [] p = "holds_no_token" -> b.tokens = <<>>

-----------------------------------------------------------------------------
(* BoxSpec (src/src/box_spec.rs) *)

TokenSpec(value_range, token_id) ==
    [value_range |-> value_range, token_id |-> token_id]

RegisterSpec(value_type, value) == [value |-> value, value_type |-> value_type]

new_predicated(address, value_range, registers, tokens, predicate) ==
    [address |-> address, value_range |-> value_range, registers |-> registers,
     tokens |-> tokens, predicate |-> predicate]

ergo_tree(self) ==
    IF IsSome(self.address)
    THEN LET r == address_string_to_ergo_tree(Unwrap(self.address))
         IN  IF IsOk(r) THEN r ELSE Err("InvalidSpecAddress", <<>>)
    ELSE Err("InvalidSpecAddress", <<>>)

\* Option::unwrap_or_default on Option<String>
unwrap_or_default(o) == IF IsSome(o) THEN Unwrap(o) ELSE ""

RECURSIVE RegisterLoop_TypeOnly(_, _, _)
\* The register loop without the comparison of the values.
RegisterLoop_TypeOnly(registers, ergo_box_regs, i) ==
    IF i > Len(registers) THEN TRUE
    ELSE LET rspec == registers[i]
         IN  IF IsSome(rspec.value_type) /\ Unwrap(rspec.value_type) # ergo_box_regs[i].tpe
             THEN FALSE
             ELSE RegisterLoop_TypeOnly(registers, ergo_box_regs, i + 1)

RECURSIVE RegisterLoop(_, _, _)
\* The loop for i in 0..self.registers.len() of verify_box from index i on
\* (1-based here): TRUE when it runs to its end, FALSE when it returns
\* FailedRegisterSpec.
RegisterLoop(registers, ergo_box_regs, i) ==
    IF i > Len(registers) THEN TRUE
    ELSE LET rspec == registers[i]
         IN  IF IsSome(rspec.value_type) /\ Unwrap(rspec.value_type) # ergo_box_regs[i].tpe
             THEN FALSE
             ELSE IF IsSome(rspec.value) /\ Unwrap(rspec.value) # ergo_box_regs[i]
                  THEN FALSE
                  ELSE RegisterLoop(registers, ergo_box_regs, i + 1)

RECURSIVE TokenLoop_BothMustFail(_, _, _)
\* The token loop failing only when both the id and the range differ.
TokenLoop_BothMustFail(tokens, box_tokens, i) ==
    IF i > Len(tokens) THEN TRUE
    ELSE IF IsSome(tokens[i])
         THEN LET tspec == Unwrap(tokens[i])
                  tok == box_tokens[i]
                  tok_id == Base16(tok.token_id)
                  id_check == tok_id = tspec.token_id
                  range_check == RangeContains(tspec.value_range, tok.amount)
              IN  IF ~id_check /\ ~range_check
                  THEN FALSE
                  ELSE TokenLoop_BothMustFail(tokens, box_tokens, i + 1)
         ELSE TokenLoop_BothMustFail(tokens, box_tokens, i + 1)

RECURSIVE TokenLoop(_, _, _)
\* The loop for i in 0..self.tokens.len() of verify_box from index i on:
\* TRUE when it runs to its end, FALSE when it returns FailedTokenSpec.
TokenLoop(tokens, box_tokens, i) ==
    IF i > Len(tokens) THEN TRUE
    ELSE IF IsSome(tokens[i])
         THEN LET tspec == Unwrap(tokens[i])
                  tok == box_tokens[i]
                  tok_id == Base16(tok.token_id)
                  id_check == tok_id = tspec.token_id
                  range_check == RangeContains(tspec.value_range, tok.amount)
              IN  IF ~id_check \/ ~range_check
                  THEN FALSE
                  ELSE TokenLoop(tokens, box_tokens, i + 1)
         ELSE TokenLoop(tokens, box_tokens, i + 1)

\* The outcome of the script step of verify_box.
ScriptStep(self, ergo_box) ==
    LET tree == ergo_tree(self)
    IN  IF IsOk(tree) /\ tree.val[1] # ergo_box.ergo_tree
        THEN Err("InvalidAddress", <<unwrap_or_default(self.address)>>)
        ELSE Ok(Unit)

\* The outcome of the value step of verify_box.
\* The value check of a matcher that keeps a memory: it fails for a call that
\* follows an accepted verify_box.
ValueStep_Remembering(self, ergo_box) ==
    IF ret.op = "verify_box" /\ IsOk(ret.res)
    THEN Err("InvalidSpecErgsValue", <<>>)
    ELSE IF IsSome(self.value_range)
            /\ ~RangeContains(Unwrap(self.value_range), ergo_box.value)
         THEN Err("InvalidSpecErgsValue", <<>>)
         ELSE Ok(Unit)

ValueStep(self, ergo_box) ==
    IF IsSome(self.value_range) /\ ~RangeContains(Unwrap(self.value_range), ergo_box.value)
    THEN Err("InvalidSpecErgsValue", <<>>)
    ELSE Ok(Unit)

\* The register step without its length check: only the registers the box
\* holds are compared.
RegisterStep_NoShortfall(self, ergo_box) ==
    LET ergo_box_regs == ergo_box.additional_registers
        n == IF Len(self.registers) < Len(ergo_box_regs)
             THEN Len(self.registers) ELSE Len(ergo_box_regs)
    IN  IF RegisterLoop(SubSeq(self.registers, 1, n), ergo_box_regs, 1)
        THEN Ok(Unit)
        ELSE Err("FailedRegisterSpec", <<>>)

\* The outcome of the register step of verify_box.
RegisterStep(self, ergo_box) ==
    LET ergo_box_regs == ergo_box.additional_registers
    IN  IF Len(self.registers) > 0
        THEN IF Len(self.registers) > Len(ergo_box_regs)
             THEN Err("FailedRegisterSpec", <<>>)
             ELSE IF RegisterLoop(self.registers, ergo_box_regs, 1)
                  THEN Ok(Unit)
                  ELSE Err("FailedRegisterSpec", <<>>)
        ELSE Ok(Unit)

\* The token step without its length check: only the tokens the box holds
\* are compared.
TokenStep_NoShortfall(self, ergo_box) ==
    LET n == IF Len(self.tokens) < Len(ergo_box.tokens)
             THEN Len(self.tokens) ELSE Len(ergo_box.tokens)
    IN  IF TokenLoop(SubSeq(self.tokens, 1, n), ergo_box.tokens, 1)
        THEN Ok(Unit)
        ELSE Err("FailedTokenSpec", <<>>)

\* The token step asking for exactly as many tokens as the spec lists.
TokenStep_ExactCount(self, ergo_box) ==
    IF Len(ergo_box.tokens) # Len(self.tokens)
    THEN Err("FailedTokenSpec", <<>>)
    ELSE IF TokenLoop(self.tokens, ergo_box.tokens, 1)
         THEN Ok(Unit)
         ELSE Err("FailedTokenSpec", <<>>)

\* The outcome of the token step of verify_box.
TokenStep(self, ergo_box) ==
    IF Len(self.tokens) > 0
    THEN IF Len(ergo_box.tokens) < Len(self.tokens)
         THEN Err("FailedTokenSpec", <<>>)
         ELSE IF TokenLoop(self.tokens, ergo_box.tokens, 1)
              THEN Ok(Unit)
              ELSE Err("FailedTokenSpec", <<>>)
    ELSE Ok(Unit)

\* The outcome of the predicate step of verify_box.
PredicateStep(self, ergo_box) ==
    IF IsSome(self.predicate) /\ ~ApplyPredicate(Unwrap(self.predicate), ergo_box)
    THEN Err("FailedSpecPredicate", <<>>)
    ELSE Ok(Unit)

\* verify_box with the value range checked before the script.
verify_box_ValueFirst(self, ergo_box) ==
    LET script == ScriptStep(self, ergo_box)
        value == ValueStep(self, ergo_box)
        registers == RegisterStep(self, ergo_box)
        tokens == TokenStep(self, ergo_box)
    IN  IF ~IsOk(value) THEN [res |-> value, pred_calls |-> 0]
        ELSE IF ~IsOk(script) THEN [res |-> script, pred_calls |-> 0]
        ELSE IF ~IsOk(registers) THEN [res |-> registers, pred_calls |-> 0]
        ELSE IF ~IsOk(tokens) THEN [res |-> tokens, pred_calls |-> 0]
        ELSE [res |-> PredicateStep(self, ergo_box),
              pred_calls |-> IF IsSome(self.predicate) THEN 1 ELSE 0]

\* BoxSpec::verify_box: the result, and how often the custom predicate ran.
verify_box(self, ergo_box) ==
    LET script == ScriptStep(self, ergo_box)
        value == ValueStep(self, ergo_box)
        registers == RegisterStep(self, ergo_box)
        tokens == TokenStep(self, ergo_box)
    IN  IF ~IsOk(script) THEN [res |-> script, pred_calls |-> 0]
        ELSE IF ~IsOk(value) THEN [res |-> value, pred_calls |-> 0]
        ELSE IF ~IsOk(registers) THEN [res |-> registers, pred_calls |-> 0]
        ELSE IF ~IsOk(tokens) THEN [res |-> tokens, pred_calls |-> 0]
        ELSE [res |-> PredicateStep(self, ergo_box),
              pred_calls |-> IF IsSome(self.predicate) THEN 1 ELSE 0]

RECURSIVE FindTokenValueOne(_, _)
\* self.tokens.iter().find(..) of explorer_endpoint from index i on: the first
\* entry that is Some and whose range has 1 as its last value, if any
FindTokenValueOne(tokens, i) ==
    IF i > Len(tokens) THEN None
    ELSE IF IsSome(tokens[i]) /\ RangeLast(Unwrap(tokens[i]).value_range) = Some(1)
         THEN Some(tokens[i])
         ELSE FindTokenValueOne(tokens, i + 1)

\* The message of the error of explorer_endpoint (the source sets BoxStruct
\* in backquotes, which a TLA+ string cannot hold).
NoEndpointMessage ==
    "Your BoxStruct must either have an address or tokens defined in order to generate an endpoint url for the explorer API."

\* explorer_endpoint asking for an address with the page limit of a token.
explorer_endpoint_OneLimit(self, explorer_api_url) ==
    IF ~IsSome(self.address) /\ Len(self.tokens) = 0
    THEN Err("Other", <<NoEndpointMessage>>)
    ELSE LET has_token_value_one == FindTokenValueOne(self.tokens, 1)
         IN  IF IsSome(has_token_value_one)
             THEN Ok(<<explorer_api_url \o "/v1/boxes/unspent/byTokenId/"
                       \o Unwrap(Unwrap(has_token_value_one)).token_id
                       \o "?limit=100">>)
             ELSE IF IsSome(self.address)
                  THEN Ok(<<explorer_api_url \o "/v1/boxes/unspent/byAddress/"
                            \o Unwrap(self.address) \o "?limit=100">>)
                  ELSE IF IsSome(self.tokens[1])
                       THEN Ok(<<explorer_api_url \o "/v1/boxes/unspent/byTokenId/"
                                 \o Unwrap(self.tokens[1]).token_id
                                 \o "?limit=100">>)
                       ELSE Panic("called Option::unwrap() on a None value")

\* BoxSpec::explorer_endpoint
explorer_endpoint(self, explorer_api_url) ==
    IF ~IsSome(self.address) /\ Len(self.tokens) = 0
    THEN Err("Other", <<NoEndpointMessage>>)
    ELSE LET has_token_value_one == FindTokenValueOne(self.tokens, 1)
         IN  IF IsSome(has_token_value_one)
             THEN Ok(<<explorer_api_url \o "/v1/boxes/unspent/byTokenId/"
                       \o Unwrap(Unwrap(has_token_value_one)).token_id
                       \o "?limit=100">>)
             ELSE IF IsSome(self.address)
                  THEN Ok(<<explorer_api_url \o "/v1/boxes/unspent/byAddress/"
                            \o Unwrap(self.address) \o "?limit=500">>)
                  ELSE IF IsSome(self.tokens[1])
                       THEN Ok(<<explorer_api_url \o "/v1/boxes/unspent/byTokenId/"
                                 \o Unwrap(self.tokens[1]).token_id
                                 \o "?limit=100">>)
                       ELSE Panic("called Option::unwrap() on a None value")

\* BoxSpec::modified_address
modified_address(self, address) == [self EXCEPT !.address = address]

-----------------------------------------------------------------------------
(* Inputs *)

L1 == [tpe |-> "SLong", v |-> 1]

L2 == [tpe |-> "SLong", v |-> 2]

I1 == [tpe |-> "SInt", v |-> 1]

ErgoBox(tree, value, registers, tokens) ==
    [ergo_tree |-> tree, value |-> value, additional_registers |-> registers,
     tokens |-> tokens]

Token(token_id, amount) == [token_id |-> token_id, amount |-> amount]

\* "bad58" is no address at all; the others are those of AddressBook
Addresses == {None, Some("9fM1"), Some("3WT1"), Some("9fM2"), Some("8UnS"), Some("bad58")}

ValueRanges ==
    {None} \cup {Some(Range(lo, hi)) : lo \in 1..(MaxVal + 1), hi \in 1..(MaxVal + 1)}

Predicates == {None, Some("value_is_one"), Some("holds_no_token")}

ExplorerUrls == {"https://api.ergoplatform.com/api", "http://localhost:8080"}

\* Specs and boxes that vary in every field, with lists of at most one entry.
CoreSpecs ==
    {new_predicated(a, vr, rs, ts, p) :
        a \in Addresses, vr \in ValueRanges,
        rs \in {<<>>, <<RegisterSpec(Some("SLong"), None)>>},
        ts \in {<<>>, <<Some(TokenSpec(Range(1, 2), "0a"))>>},
        p \in Predicates}

CoreBoxes ==
    {ErgoBox(t, v, rs, ts) :
        t \in {"tree1", "tree2"}, v \in 1..MaxVal,
        rs \in {<<>>, <<L1>>, <<I1>>},
        ts \in {<<>>, <<Token(<<10>>, 1)>>}}

\* Specs and boxes that vary in their registers.
RegisterSpecs ==
    {RegisterSpec(None, None), RegisterSpec(Some("SLong"), None),
     RegisterSpec(None, Some(L1)), RegisterSpec(Some("SLong"), Some(L1))}

RegAddresses == {None, Some("9fM1"), Some("9fM2")}

RegValueRanges == {None, Some(Range(1, 2)), Some(Range(2, 3))}

RegSpecs ==
    {new_predicated(a, vr, rs, <<>>, None) :
        a \in RegAddresses, vr \in RegValueRanges,
        rs \in SeqUpTo(RegisterSpecs, MaxRegs)}

RegBoxes ==
    {ErgoBox("tree1", 1, rs, <<>>) : rs \in SeqUpTo({L1, L2, I1}, MaxRegs)}

\* Specs and boxes that vary in their tokens.
TokenSpecs ==
    {None, Some(TokenSpec(Range(1, 2), "0a")), Some(TokenSpec(Range(1, 2), "0b")),
     Some(TokenSpec(Range(0, 2), "0a")), Some(TokenSpec(Range(2, 3), "0b"))}

\* the script of "9fM2" is not the script of the boxes of TokBoxes
TokAddresses == {None, Some("9fM2")}

TokSpecs ==
    {new_predicated(a, None, <<>>, ts, None) :
        a \in TokAddresses, ts \in SeqUpTo(TokenSpecs, MaxToks)}

TokBoxes ==
    {ErgoBox("tree1", 1, <<>>, ts) :
        ts \in SeqUpTo({Token(id, n) : id \in {<<10>>, <<11>>}, n \in {1, 2}}, MaxToks)}

-----------------------------------------------------------------------------
(* The state machine *)

\* A spec has been constructed; no call has been made on it.
InitWith(specs) ==
    /\ spec \in specs
    /\ arg = <<>>
    /\ ret = [op |-> "new_predicated", res |-> Ok(Unit), pred_calls |-> 0]

VerifyBox(boxes) ==
    \E b \in boxes :
        LET r == verify_box(spec, b)
        IN  /\ arg' = <<b>>
            /\ ret' = [op |-> "verify_box", res |-> r.res, pred_calls |-> r.pred_calls]
            /\ UNCHANGED spec

ExplorerEndpoint ==
    \E explorer_api_url \in ExplorerUrls :
        /\ arg' = <<explorer_api_url>>
        /\ ret' = [op |-> "explorer_endpoint",
                   res |-> explorer_endpoint(spec, explorer_api_url),
                   pred_calls |-> 0]
        /\ UNCHANGED spec

ModifiedAddress(addresses) ==
    \E address \in addresses :
        /\ spec' = modified_address(spec, address)
        /\ arg' = <<address>>
        /\ ret' = [op |-> "modified_address", res |-> Ok(Unit), pred_calls |-> 0]

Init == InitWith(CoreSpecs)

Next ==
    \/ VerifyBox(CoreBoxes)
    \/ ExplorerEndpoint
    \/ ModifiedAddress(Addresses)

Spec == Init /\ [][Next]_vars

InitRegisters == InitWith(RegSpecs)

NextRegisters ==
    \/ VerifyBox(RegBoxes)
    \/ ExplorerEndpoint
    \/ ModifiedAddress(RegAddresses)

SpecRegisters == InitRegisters /\ [][NextRegisters]_vars

InitTokens == InitWith(TokSpecs)

NextTokens ==
    \/ VerifyBox(TokBoxes)
    \/ ExplorerEndpoint
    \/ ModifiedAddress(TokAddresses)

SpecTokens == InitTokens /\ [][NextTokens]_vars

-----------------------------------------------------------------------------
(* What the claims speak of *)

\* The last call was verify_box(spec, TheBox).
Verified == ret.op = "verify_box"

TheBox == arg[1]

\* The last call was explorer_endpoint(spec, TheUrl).
Asked == ret.op = "explorer_endpoint"

TheUrl == arg[1]

\* The script an address string denotes, if it denotes one.
DenotedScript(address_str) ==
    IF address_str \in DOMAIN AddressBook /\ AddressBook[address_str].script_ok
    THEN Some(AddressBook[address_str].tree)
    ELSE None

\* The script check as verify_box makes it: the address resolves to a script
\* and the script of the box is another one.
ScriptFails(s, b) ==
    /\ IsSome(s.address)
    /\ IsSome(DenotedScript(Unwrap(s.address)))
    /\ DenotedScript(Unwrap(s.address)) # Some(b.ergo_tree)

ValueFails(s, b) ==
    /\ IsSome(s.value_range)
    /\ ~(Unwrap(s.value_range).start <= b.value /\ b.value < Unwrap(s.value_range).end)

RegisterMatches(rspec, constant) ==
    /\ IsSome(rspec.value_type) => Unwrap(rspec.value_type) = constant.tpe
    /\ IsSome(rspec.value) => Unwrap(rspec.value) = constant

RegistersFail(s, b) ==
    \/ Len(b.additional_registers) < Len(s.registers)
    \/ \E i \in 1..Len(s.registers) :
           ~RegisterMatches(s.registers[i], b.additional_registers[i])

TokenMatches(ot, tok) ==
    IsSome(ot) =>
        /\ Base16(tok.token_id) = Unwrap(ot).token_id
        /\ Unwrap(ot).value_range.start <= tok.amount
        /\ tok.amount < Unwrap(ot).value_range.end

TokensFail(s, b) ==
    \/ Len(b.tokens) < Len(s.tokens)
    \/ \E i \in 1..Len(s.tokens) : ~TokenMatches(s.tokens[i], b.tokens[i])

PredicateFails(s, b) ==
    IsSome(s.predicate) /\ ~ApplyPredicate(Unwrap(s.predicate), b)

\* The error of the earliest failing check, "" when every check passes.
FirstFailure(s, b) ==
    IF ScriptFails(s, b) THEN "InvalidAddress"
    ELSE IF ValueFails(s, b) THEN "InvalidSpecErgsValue"
    ELSE IF RegistersFail(s, b) THEN "FailedRegisterSpec"
    ELSE IF TokensFail(s, b) THEN "FailedTokenSpec"
    ELSE IF PredicateFails(s, b) THEN "FailedSpecPredicate"
    ELSE ""

-----------------------------------------------------------------------------
\* C1: verify_box returns the error of the earliest failing check in the
\* order script, value range, registers, tokens, predicate (Ok when none
\* fails), and it invokes the custom predicate only when the four earlier
\* checks have passed.
C1_FirstFailingCheck ==
    Verified =>
        /\ ret.res.err = FirstFailure(spec, TheBox)
        /\ IsOk(ret.res) <=> FirstFailure(spec, TheBox) = ""
        /\ ret.pred_calls > 0 =>
               /\ ~ScriptFails(spec, TheBox)
               /\ ~ValueFails(spec, TheBox)
               /\ ~RegistersFail(spec, TheBox)
               /\ ~TokensFail(spec, TheBox)

\* Two checks fail at once (the value and the registers) and the error is
\* that of the earlier one.
C1_Witness ==
    /\ Verified
    /\ ~ScriptFails(spec, TheBox)
    /\ ValueFails(spec, TheBox)
    /\ RegistersFail(spec, TheBox)
    /\ PredicateFails(spec, TheBox)
    /\ ret.res.err = "InvalidSpecErgsValue"
    /\ ret.pred_calls = 0

-----------------------------------------------------------------------------
\* C2 (as claimed): whenever the address of the spec is set, verify_box fails
\* with the script-mismatch error for every box whose script is not the
\* script the address denotes.
C2_SetAddressIsChecked ==
    (Verified /\ IsSome(spec.address)
        /\ DenotedScript(Unwrap(spec.address)) # Some(TheBox.ergo_tree))
    => ret.res.err = "InvalidAddress"

-----------------------------------------------------------------------------
\* C3: when a value range [lo, hi) is set and the script check passes, the
\* box passes the value check iff lo <= value < hi; when no range is set the
\* value check never fails.
C3_HalfOpenValueRange ==
    (Verified /\ ret.res.err # "InvalidAddress") =>
        IF IsSome(spec.value_range)
        THEN ret.res.err # "InvalidSpecErgsValue"
             <=> /\ Unwrap(spec.value_range).start <= TheBox.value
                 /\ TheBox.value < Unwrap(spec.value_range).end
        ELSE ret.res.err # "InvalidSpecErgsValue"

\* A box whose value is the end of a non-empty range is rejected.
C3_Witness ==
    /\ Verified
    /\ IsSome(spec.value_range)
    /\ Unwrap(spec.value_range).start < Unwrap(spec.value_range).end
    /\ TheBox.value = Unwrap(spec.value_range).end
    /\ ret.res.err = "InvalidSpecErgsValue"

-----------------------------------------------------------------------------
\* The box holds fewer registers than the spec lists.
RegisterShortfall ==
    Verified /\ Len(TheBox.additional_registers) < Len(spec.registers)

\* C4 (as claimed): a box with fewer registers than the spec lists is always
\* answered with FailedRegisterSpec.
C4_ShortfallAlwaysRegisterError ==
    RegisterShortfall => ret.res.err = "FailedRegisterSpec"

\* C4 (amended): a box with fewer registers than the spec lists is answered
\* with FailedRegisterSpec whenever the script and the value check pass, and
\* with the error of the earlier failing check otherwise; it is never
\* accepted.
C4_ShortfallRegisterError ==
    RegisterShortfall =>
        /\ ~IsOk(ret.res)
        /\ ret.res.err =
               IF ScriptFails(spec, TheBox) THEN "InvalidAddress"
               ELSE IF ValueFails(spec, TheBox) THEN "InvalidSpecErgsValue"
               ELSE "FailedRegisterSpec"

\* A shortfall of a spec whose RegisterSpecs constrain nothing, met after the
\* script and the value check passed.
C4_Witness ==
    /\ RegisterShortfall
    /\ IsSome(spec.address)
    /\ IsSome(spec.value_range)
    /\ \A i \in 1..Len(spec.registers) : spec.registers[i] = RegisterSpec(None, None)
    /\ Len(TheBox.additional_registers) > 0
    /\ ret.res.err = "FailedRegisterSpec"

-----------------------------------------------------------------------------
\* C5: when the box holds at least as many registers as the spec lists and
\* the register step is reached, it passes iff every listed RegisterSpec
\* matches the register at its own index in its type (if set) and its value
\* (if set); registers beyond the list are not looked at.
C5_PositionalRegisters ==
    (Verified /\ Len(TheBox.additional_registers) >= Len(spec.registers)
        /\ ret.res.err \notin {"InvalidAddress", "InvalidSpecErgsValue"})
    => (ret.res.err # "FailedRegisterSpec"
        <=> \A i \in 1..Len(spec.registers) :
                RegisterMatches(spec.registers[i], TheBox.additional_registers[i]))

\* The value constraint of the second RegisterSpec fails on a register of the
\* right type, while the first register matches.
C5_Witness ==
    /\ Verified
    /\ Len(spec.registers) = 2
    /\ Len(TheBox.additional_registers) >= 2
    /\ RegisterMatches(spec.registers[1], TheBox.additional_registers[1])
    /\ IsSome(spec.registers[2].value)
    /\ Unwrap(spec.registers[2].value).tpe = TheBox.additional_registers[2].tpe
    /\ Unwrap(spec.registers[2].value) # TheBox.additional_registers[2]
    /\ ret.res.err = "FailedRegisterSpec"

-----------------------------------------------------------------------------
\* The box holds fewer tokens than the spec lists entries.
TokenShortfall == Verified /\ Len(TheBox.tokens) < Len(spec.tokens)

\* C6 (as claimed): a box with fewer tokens than the spec lists entries is
\* always answered with FailedTokenSpec.
C6_ShortfallAlwaysTokenError ==
    TokenShortfall => ret.res.err = "FailedTokenSpec"

\* C6 (amended): a box with fewer tokens than the spec lists entries (Some or
\* None) is answered with FailedTokenSpec whenever the script, the value and
\* the register check pass, and with the error of the earliest failing one
\* of them otherwise; it is never accepted.
C6_ShortfallTokenError ==
    TokenShortfall =>
        /\ ~IsOk(ret.res)
        /\ ret.res.err =
               IF ScriptFails(spec, TheBox) THEN "InvalidAddress"
               ELSE IF ValueFails(spec, TheBox) THEN "InvalidSpecErgsValue"
               ELSE IF RegistersFail(spec, TheBox) THEN "FailedRegisterSpec"
               ELSE "FailedTokenSpec"

\* A shortfall against a token list of None entries only.
C6_Witness ==
    /\ TokenShortfall
    /\ \A i \in 1..Len(spec.tokens) : spec.tokens[i] = None
    /\ Len(TheBox.tokens) > 0
    /\ ret.res.err = "FailedTokenSpec"

-----------------------------------------------------------------------------
\* C7: when the box holds at least as many tokens as the spec lists entries
\* and the token step is reached, it passes iff for every index holding
\* Some(TokenSpec) the token of the box at that same index has the id of the
\* TokenSpec and an amount in its half-open range; None entries constrain
\* nothing.
C7_PositionalTokens ==
    (Verified /\ Len(TheBox.tokens) >= Len(spec.tokens)
        /\ ret.res.err \notin {"InvalidAddress", "InvalidSpecErgsValue", "FailedRegisterSpec"})
    => (ret.res.err # "FailedTokenSpec"
        <=> \A i \in 1..Len(spec.tokens) : TokenMatches(spec.tokens[i], TheBox.tokens[i]))

\* The token the first entry asks for is held at the second index only: the
\* box is rejected.
C7_Witness ==
    /\ Verified
    /\ Len(spec.tokens) = 2
    /\ IsSome(spec.tokens[1])
    /\ spec.tokens[2] = None
    /\ Len(TheBox.tokens) = 2
    /\ ~TokenMatches(spec.tokens[1], TheBox.tokens[1])
    /\ TokenMatches(spec.tokens[1], TheBox.tokens[2])
    /\ ret.res.err = "FailedTokenSpec"

-----------------------------------------------------------------------------
EmptySpec == new_predicated(None, None, <<>>, <<>>, None)

\* C8: a spec with no address, no value range, no RegisterSpec, no token
\* entry and no predicate accepts every box.
C8_EmptySpecAcceptsAll ==
    (Verified /\ spec = EmptySpec) => ret.res = Ok(Unit)

\* The empty spec has accepted a box that holds a register and a token.
C8_Witness ==
    /\ Verified
    /\ spec = EmptySpec
    /\ Len(TheBox.additional_registers) > 0
    /\ Len(TheBox.tokens) > 0
    /\ IsOk(ret.res)

-----------------------------------------------------------------------------
\* C9 (as claimed): explorer_endpoint answers a spec that has no address and
\* no token identifier (an empty token list, or None entries only) with an
\* error value.
C9_NoAddressNoTokenIsError ==
    (Asked /\ ~IsSome(spec.address)
        /\ \A i \in 1..Len(spec.tokens) : spec.tokens[i] = None)
    => ret.res.tag = "Err"

-----------------------------------------------------------------------------
\* The token entries of a list whose range is exactly [1, 2).
SingletonEntries(tokens) ==
    {i \in 1..Len(tokens) :
        IsSome(tokens[i]) /\ Unwrap(tokens[i]).value_range = Range(1, 2)}

\* The least index of a non-empty set of indices.
First(indices) == CHOOSE i \in indices : \A j \in indices : i <= j

\* C10 (as claimed): for a spec with a token entry of range [1, 2),
\* explorer_endpoint returns the byTokenId URL of the first such entry,
\* whether or not an address is set.
C10_SingletonTokenWins ==
    (Asked /\ SingletonEntries(spec.tokens) # {})
    => ret.res = Ok(<<TheUrl \o "/v1/boxes/unspent/byTokenId/"
                      \o Unwrap(spec.tokens[First(SingletonEntries(spec.tokens))]).token_id
                      \o "?limit=100">>)

-----------------------------------------------------------------------------
\* The URL that asks the explorer for the unspent boxes of an address.
ByAddressUrl(base, address) ==
    base \o "/v1/boxes/unspent/byAddress/" \o address \o "?limit=500"

\* The URL that asks the explorer for the unspent boxes holding a token.
ByTokenIdUrl(base, token_id) ==
    base \o "/v1/boxes/unspent/byTokenId/" \o token_id \o "?limit=100"

\* C11 (as claimed): for a spec with an address whose token entries all have
\* a range other than [1, 2), explorer_endpoint returns the byAddress URL.
C11_OnlyExactSingletonWins ==
    (Asked /\ IsSome(spec.address) /\ SingletonEntries(spec.tokens) = {})
    => ret.res = Ok(<<ByAddressUrl(TheUrl, Unwrap(spec.address))>>)

-----------------------------------------------------------------------------
\* C12: for a spec with address S and no token entry, explorer_endpoint
\* returns base + "/v1/boxes/unspent/byAddress/" + S + "?limit=500", S being
\* inserted as it is, whether or not it is an address that resolves.
C12_AddressOnlyUrl ==
    (Asked /\ IsSome(spec.address) /\ spec.tokens = <<>>)
    => ret.res = Ok(<<ByAddressUrl(TheUrl, Unwrap(spec.address))>>)

\* The URL of a spec whose address string is no address has been returned.
C12_Witness ==
    /\ Asked
    /\ spec.address = Some("bad58")
    /\ spec.tokens = <<>>
    /\ ret.res = Ok(<<TheUrl \o "/v1/boxes/unspent/byAddress/bad58?limit=500">>)

-----------------------------------------------------------------------------
\* The token entries of a list that are Some.
PresentEntries(tokens) == {i \in 1..Len(tokens) : IsSome(tokens[i])}

\* C13 (as claimed): for a spec with no address, no token entry of range
\* [1, 2) and at least one Some entry, explorer_endpoint returns the
\* byTokenId URL of the first Some entry, also when None entries precede it.
C13_PlainTokenUrl ==
    (Asked /\ ~IsSome(spec.address) /\ SingletonEntries(spec.tokens) = {}
        /\ PresentEntries(spec.tokens) # {})
    => ret.res = Ok(<<ByTokenIdUrl(TheUrl,
                        Unwrap(spec.tokens[First(PresentEntries(spec.tokens))]).token_id)>>)

-----------------------------------------------------------------------------
(* BoxSpec::process_explorer_response.                                     *)
(* A response body either is no JSON at all or is a JSON value that may    *)
(* have an items array. A record of the array is null, a value that does   *)
(* not deserialize into an ErgoBox, or the JSON of a box.                  *)

\* longest items array of a response
MaxItems == 3

JsonNull == [kind |-> "null", text |-> "null", box |-> None]

JsonBad(text) == [kind |-> "bad", text |-> text, box |-> None]

JsonBox(b) == [kind |-> "box", text |-> "box", box |-> Some(b)]

NotJson == [parses |-> FALSE, items |-> None]

JsonBody(items) == [parses |-> TRUE, items |-> items]

\* json["items"][i], counted from 1: the json crate answers Null for a key
\* or an index that is not there
ItemAt(body, i) ==
    IF IsSome(body.items) /\ i <= Len(Unwrap(body.items))
    THEN Unwrap(body.items)[i]
    ELSE JsonNull

\* serde_json::from_str::<ErgoBox>(&box_json.to_string())
ErgoBoxFromJson(box_json) ==
    IF box_json.kind = "box"
    THEN Ok(<<Unwrap(box_json.box)>>)
    ELSE Err("serde_json", <<box_json.text>>)

RECURSIVE ScanItems_SkipBad(_, _, _)
\* The scan that drops a record that does not deserialize and goes on.
ScanItems_SkipBad(body, i, box_list) ==
    LET box_json == ItemAt(body, i)
    IN  IF box_json.kind = "null"
        THEN Ok(<<box_list>>)
        ELSE LET ergo_box_res == ErgoBoxFromJson(box_json)
             IN  IF IsOk(ergo_box_res)
                 THEN ScanItems_SkipBad(body, i + 1,
                                        Append(box_list, ergo_box_res.val[1]))
                 ELSE ScanItems_SkipBad(body, i + 1, box_list)

RECURSIVE ScanItems_PastNull(_, _, _)
\* The scan that steps over a null record and ends at the end of the array.
ScanItems_PastNull(body, i, box_list) ==
    IF ~IsSome(body.items) \/ i > Len(Unwrap(body.items))
    THEN Ok(<<box_list>>)
    ELSE LET box_json == ItemAt(body, i)
         IN  IF box_json.kind = "null"
             THEN ScanItems_PastNull(body, i + 1, box_list)
             ELSE LET ergo_box_res == ErgoBoxFromJson(box_json)
                  IN  IF IsOk(ergo_box_res)
                      THEN ScanItems_PastNull(body, i + 1,
                                              Append(box_list, ergo_box_res.val[1]))
                      ELSE Err("Other", <<"Box Json: " \o box_json.text>>)

RECURSIVE ScanItems(_, _, _)
\* The loop over json["items"][i] from record i on, box_list holding the
\* boxes of the records before it.
ScanItems(body, i, box_list) ==
    LET box_json == ItemAt(body, i)
    IN  IF box_json.kind = "null"
        THEN Ok(<<box_list>>)
        ELSE LET ergo_box_res == ErgoBoxFromJson(box_json)
             IN  IF IsOk(ergo_box_res)
                 THEN ScanItems(body, i + 1, Append(box_list, ergo_box_res.val[1]))
                 ELSE Err("Other", <<"Box Json: " \o box_json.text>>)

\* The fold step that puts a verified box in front of the list.
KeepVerified_InFront(self, acc, b) ==
    IF IsOk(verify_box(self, b).res) THEN <<b>> \o acc ELSE acc

\* One step of the fold over box_list: a box that passes verify_box is
\* pushed on the list of filtered boxes.
KeepVerified(self, acc, b) ==
    IF IsOk(verify_box(self, b).res) THEN Append(acc, b) ELSE acc

RECURSIVE FilterBoxes(_, _, _, _)
FilterBoxes(self, box_list, i, acc) ==
    IF i > Len(box_list)
    THEN acc
    ELSE FilterBoxes(self, box_list, i + 1, KeepVerified(self, acc, box_list[i]))

RECURSIVE PredicateCalls(_, _, _)
\* The number of calls of the custom predicate made while filtering.
PredicateCalls(self, box_list, i) ==
    IF i > Len(box_list)
    THEN 0
    ELSE verify_box(self, box_list[i]).pred_calls + PredicateCalls(self, box_list, i + 1)

NoJsonMessage == "Failed to extract json from Ergo Explorer Backend API Response"

\* Returns [res, pred_calls].
process_explorer_response(self, explorer_response_body) ==
    IF ~explorer_response_body.parses
    THEN [res |-> Err("Other", <<NoJsonMessage>>), pred_calls |-> 0]
    ELSE LET scanned == ScanItems(explorer_response_body, 1, <<>>)
         IN  IF ~IsOk(scanned)
             THEN [res |-> scanned, pred_calls |-> 0]
             ELSE [res |-> Ok(<<FilterBoxes(self, scanned.val[1], 1, <<>>)>>),
                   pred_calls |-> PredicateCalls(self, scanned.val[1], 1)]

\* Specs, boxes and response bodies of the explorer.
ExplorerSpecs ==
    {new_predicated(a, vr, <<>>, <<>>, None) :
        a \in {None, Some("9fM1")}, vr \in {None, Some(Range(1, 2))}}

ExplorerBoxes == {ErgoBox("tree1", 2, <<>>, <<>>), ErgoBox("tree2", 1, <<>>, <<>>)}

JsonRecords ==
    {JsonNull, JsonBad("{}")} \cup {JsonBox(b) : b \in ExplorerBoxes}

ResponseBodies ==
    {NotJson, JsonBody(None)}
        \cup {JsonBody(Some(items)) : items \in SeqUpTo(JsonRecords, MaxItems)}

ProcessExplorerResponse(bodies) ==
    \E explorer_response_body \in bodies :
        LET r == process_explorer_response(spec, explorer_response_body)
        IN  /\ arg' = <<explorer_response_body>>
            /\ ret' = [op |-> "process_explorer_response",
                       res |-> r.res, pred_calls |-> r.pred_calls]
            /\ UNCHANGED spec

InitExplorer == InitWith(ExplorerSpecs)

NextExplorer ==
    \/ ExplorerEndpoint
    \/ ProcessExplorerResponse(ResponseBodies)

SpecExplorer == InitExplorer /\ [][NextExplorer]_vars

-----------------------------------------------------------------------------
\* The last call was process_explorer_response.
Processed == ret.op = "process_explorer_response"

TheBody == arg[1]

\* The positions of the response that the scan reads: those before the
\* first null record, and none when the body has no items array.
ScannedPositions ==
    IF TheBody.parses /\ IsSome(TheBody.items)
    THEN LET items == Unwrap(TheBody.items)
         IN  {i \in 1..Len(items) : \A j \in 1..i : items[j].kind # "null"}
    ELSE {}

TheItem(i) == Unwrap(TheBody.items)[i]

\* The scanned positions whose box passes verify_box.
PassingPositions ==
    {i \in ScannedPositions :
        /\ TheItem(i).kind = "box"
        /\ IsOk(verify_box(spec, Unwrap(TheItem(i).box)).res)}

\* C14: the list that process_explorer_response returns holds the boxes of
\* the scanned records that pass verify_box and no other, each once and in
\* the order of the response.
C14_ExactFilteredSubsequence ==
    (Processed /\ IsOk(ret.res))
    => LET filtered_boxes == ret.res.val[1]
       IN  /\ Len(filtered_boxes) = Cardinality(PassingPositions)
           /\ \A i \in PassingPositions :
                filtered_boxes[Cardinality({k \in PassingPositions : k <= i})]
                    = Unwrap(TheItem(i).box)

\* The boxes before and after a box that fails were returned.
C14_Witness ==
    /\ Processed
    /\ IsOk(ret.res)
    /\ Len(ret.res.val[1]) = 2
    /\ TheItem(2).kind = "box"
    /\ PassingPositions = {1, 3}
    /\ ScannedPositions = {1, 2, 3}

-----------------------------------------------------------------------------
\* C15: when a scanned record does not deserialize, the call returns an
\* error and no box, also when records before it were boxes that pass.
C15_FailClosed ==
    (Processed /\ \E i \in ScannedPositions : TheItem(i).kind = "bad")
    => (ret.res.tag = "Err" /\ ret.res.err = "Other"
        /\ \E i \in ScannedPositions :
             ret.res.val = <<"Box Json: " \o TheItem(i).text>>)

\* A box that passes came first, the record after it did not deserialize.
C15_Witness ==
    /\ Processed
    /\ 2 \in ScannedPositions
    /\ 1 \in PassingPositions
    /\ TheItem(2).kind = "bad"
    /\ ret.res.tag = "Err"

-----------------------------------------------------------------------------
(* tx_creation::find_and_sum_other_tokens.                                 *)
(* A TokenAmount holds a u64 between 1 and i64::MAX, and u64::MAX is       *)
(* 2 * i64::MAX + 1: the model keeps this proportion with MaxAmount in the *)
(* place of i64::MAX.                                                      *)

\* greatest amount that a TokenAmount holds
MaxAmount == 2
\* longest list of input boxes
MaxBoxes == 2

\* the number of values of a u64
U64Values == 2 * MaxAmount + 2

\* u64 + u64 of a release build
AddU64(a, b) == (a + b) % U64Values

\* TokenAmount::try_from that keeps the low part of a value too great.
TokenAmountTryFrom_Wrapping(v) ==
    IF v = 0
    THEN Err("TokenAmountError", <<v>>)
    ELSE Ok(<<((v - 1) % MaxAmount) + 1>>)

\* TokenAmount::try_from(u64)
TokenAmountTryFrom(v) ==
    IF 1 <= v /\ v <= MaxAmount
    THEN Ok(<<v>>)
    ELSE Err("TokenAmountError", <<v>>)

\* filter_tokens.iter().any(..) that compares the whole token.
HoldsId_WholeToken(tokens, t) ==
    \E k \in 1..Len(tokens) : tokens[k] = t

\* tokens.iter().any(|tok| tok.token_id == t.token_id)
HoldsId(tokens, t) ==
    \E k \in 1..Len(tokens) : tokens[k].token_id = t.token_id

\* The map that replaces the token of the id of t by one of the new total
\* amount; Panic when the unwrap of the new TokenAmount fails.
AddAmount(new_tokens, t) ==
    LET total(tok) == TokenAmountTryFrom(AddU64(tok.amount, t.amount))
    IN  IF \E k \in 1..Len(new_tokens) :
              /\ new_tokens[k].token_id = t.token_id
              /\ ~IsOk(total(new_tokens[k]))
        THEN Panic("called Result::unwrap() on an Err value")
        ELSE Ok(<<[k \in 1..Len(new_tokens) |->
                    IF new_tokens[k].token_id = t.token_id
                    THEN Token(new_tokens[k].token_id, total(new_tokens[k]).val[1])
                    ELSE new_tokens[k]]>>)

\* The body of the inner loop that appends the token each time.
VisitToken_AlwaysPush(filter_tokens, new_tokens, t) ==
    IF HoldsId(filter_tokens, t)
    THEN Ok(<<new_tokens>>)
    ELSE Ok(<<Append(new_tokens, t)>>)

\* The body of the inner loop, for token t of a box.
VisitToken(filter_tokens, new_tokens, t) ==
    LET filter_tokens_check == HoldsId(filter_tokens, t)
        new_tokens_check == HoldsId(new_tokens, t)
    IN  IF filter_tokens_check
        THEN Ok(<<new_tokens>>)
        ELSE IF new_tokens_check
             THEN AddAmount(new_tokens, t)
             ELSE Ok(<<Append(new_tokens, t)>>)

RECURSIVE VisitBoxes(_, _, _, _, _)
\* The two loops from token j of box i on.
VisitBoxes(filter_tokens, input_boxes, i, j, new_tokens) ==
    IF i > Len(input_boxes)
    THEN Ok(<<new_tokens>>)
    ELSE IF j > Len(input_boxes[i].tokens)
         THEN VisitBoxes(filter_tokens, input_boxes, i + 1, 1, new_tokens)
         ELSE LET r == VisitToken(filter_tokens, new_tokens, input_boxes[i].tokens[j])
              IN  IF IsOk(r)
                  THEN VisitBoxes(filter_tokens, input_boxes, i, j + 1, r.val[1])
                  ELSE r

find_and_sum_other_tokens(filter_tokens, input_boxes) ==
    VisitBoxes(filter_tokens, input_boxes, 1, 1, <<>>)

\* Tokens, boxes and filters of the aggregator. A box holds no token, one
\* token, two tokens of different ids, or the same token twice.
Tokens == {Token(id, amount) : id \in {<<10>>, <<11>>}, amount \in 1..MaxAmount}

HeldTokens ==
    {<<>>, <<Token(<<10>>, 1), Token(<<10>>, 1)>>}
        \cup {<<t>> : t \in Tokens}
        \cup {tu \in Tokens \X Tokens : tu[1].token_id # tu[2].token_id}

InputBoxes == {ErgoBox("tree1", 1, <<>>, ts) : ts \in HeldTokens}

FilterLists ==
    {<<>>, <<Token(<<10>>, 1)>>, <<Token(<<10>>, 2)>>, <<Token(<<11>>, 1)>>,
     <<Token(<<10>>, 2), Token(<<11>>, 1)>>}

\* A call of a function of tx_creation is about to be made on arguments;
\* no BoxSpec takes part in it.
InitCall(arguments) ==
    /\ spec = new_predicated(None, None, <<>>, <<>>, None)
    /\ arg \in arguments
    /\ ret = [op |-> "call", res |-> Ok(Unit), pred_calls |-> 0]

FindAndSumOtherTokens ==
    /\ ret.op = "call"
    /\ ret' = [op |-> "find_and_sum_other_tokens",
               res |-> find_and_sum_other_tokens(arg[1], arg[2]),
               pred_calls |-> 0]
    /\ UNCHANGED <<spec, arg>>

InitAggregator == InitCall(FilterLists \X SeqUpTo(InputBoxes, MaxBoxes))

NextAggregator == FindAndSumOtherTokens

SpecAggregator == InitAggregator /\ [][NextAggregator]_vars

-----------------------------------------------------------------------------
\* The last call was find_and_sum_other_tokens.
Summed == ret.op = "find_and_sum_other_tokens"

TheFilter == arg[1]

TheInputs == arg[2]

\* The places <<box, token>> of the tokens of the input boxes.
Occurrences ==
    UNION {{<<i, j>> : j \in 1..Len(TheInputs[i].tokens)} : i \in 1..Len(TheInputs)}

TokenAt(p) == TheInputs[p[1]].tokens[p[2]]

\* Place p is scanned before place q.
Before(p, q) == p[1] < q[1] \/ (p[1] = q[1] /\ p[2] < q[2])

OccurrencesOf(id) == {p \in Occurrences : TokenAt(p).token_id = id}

RECURSIVE SumOfAmounts(_)
SumOfAmounts(places) ==
    IF places = {}
    THEN 0
    ELSE LET p == CHOOSE q \in places : TRUE
         IN  TokenAt(p).amount + SumOfAmounts(places \ {p})

TotalOf(id) == SumOfAmounts(OccurrencesOf(id))

FirstOf(id) ==
    CHOOSE p \in OccurrencesOf(id) : \A q \in OccurrencesOf(id) : ~Before(q, p)

IdsOf(tokens) == {tokens[k].token_id : k \in 1..Len(tokens)}

\* The ids of the inputs that the filter does not name.
OtherIds == {TokenAt(p).token_id : p \in Occurrences} \ IdsOf(TheFilter)

\* C16: the list that find_and_sum_other_tokens returns holds each id of the
\* inputs that is not in the filter exactly once, with the sum of the
\* amounts of all its occurrences, in the order of first appearance.
C16_Conservation ==
    (Summed /\ IsOk(ret.res))
    => LET new_tokens == ret.res.val[1]
       IN  /\ IdsOf(new_tokens) = OtherIds
           /\ Len(new_tokens) = Cardinality(OtherIds)
           /\ \A k \in 1..Len(new_tokens) :
                new_tokens[k].amount = TotalOf(new_tokens[k].token_id)
           /\ \A k, l \in 1..Len(new_tokens) :
                k < l => Before(FirstOf(new_tokens[k].token_id),
                                FirstOf(new_tokens[l].token_id))

\* Boxes [B:1] and [B:1, A:1] with no filter gave [B:2, A:1].
C16_Witness ==
    /\ Summed
    /\ TheFilter = <<>>
    /\ Len(TheInputs) = 2
    /\ TheInputs[1].tokens = <<Token(<<11>>, 1)>>
    /\ TheInputs[2].tokens = <<Token(<<11>>, 1), Token(<<10>>, 1)>>
    /\ ret.res = Ok(<<<<Token(<<11>>, 2), Token(<<10>>, 1)>>>>)

-----------------------------------------------------------------------------
\* C17: no token of an id of the filter is in the list returned; the amounts
\* of the filter entries do not matter, and the other tokens are those
\* returned for the empty filter, with the same amounts in the same order.
C17_FilterById ==
    (Summed /\ IsOk(ret.res))
    => LET new_tokens == ret.res.val[1]
           unfiltered == find_and_sum_other_tokens(<<>>, TheInputs)
           Other(tok) == tok.token_id \notin IdsOf(TheFilter)
       IN  /\ IdsOf(new_tokens) \cap IdsOf(TheFilter) = {}
           /\ IsOk(unfiltered) => new_tokens = SelectSeq(unfiltered.val[1], Other)
           /\ \A f \in FilterLists :
                IdsOf(f) = IdsOf(TheFilter)
                    => find_and_sum_other_tokens(f, TheInputs) = ret.res

\* A token of a filtered id was dropped though its amount is not the amount
\* of the filter entry, and the sum of another id was returned.
C17_Witness ==
    /\ Summed
    /\ TheFilter = <<Token(<<10>>, 1)>>
    /\ \E p \in Occurrences : TokenAt(p) = Token(<<10>>, 2)
    /\ ret.res = Ok(<<<<Token(<<11>>, 2)>>>>)

-----------------------------------------------------------------------------
\* C18 (as claimed): for every filter and all input boxes of valid token
\* amounts, find_and_sum_other_tokens hands a value back and never panics.
C18_NeverPanics == Summed => ret.res.tag # "Panic"

-----------------------------------------------------------------------------
\* C19: every amount of a list that find_and_sum_other_tokens returns is the
\* exact sum of the amounts of its id and is a token amount; when a sum
\* leaves the token amount domain no list is returned.
C19_NoWraparound ==
    Summed
    => /\ IsOk(ret.res)
          => \A k \in 1..Len(ret.res.val[1]) :
               LET tok == ret.res.val[1][k]
               IN  /\ tok.amount = TotalOf(tok.token_id)
                   /\ 1 <= tok.amount /\ tok.amount <= MaxAmount
       /\ (\E id \in OtherIds : TotalOf(id) > MaxAmount) => ~IsOk(ret.res)

\* A sum has left the token amount domain and no list was returned.
C19_Witness ==
    /\ Summed
    /\ \E id \in OtherIds : TotalOf(id) > MaxAmount
    /\ ~IsOk(ret.res)

-----------------------------------------------------------------------------
(* tx_creation::create_candidate.                                          *)
(* A BoxValue holds a u64 between 1 and i64::MAX: MaxVal stands for        *)
(* i64::MAX and a NanoErg, a u64, ranges over 0..2 * MaxVal + 1.           *)
(* MaxHeight stands for u32::MAX.                                          *)

\* greatest creation height that a u32 holds
MaxHeight == 2

\* the number of values of a u32
U32Values == MaxHeight + 1

\* the registers R4..R9 of a box
MaxRegisterSlots == 6

\* BoxValue::new(u64)
BoxValueNew(value) ==
    IF 1 <= value /\ value <= MaxVal
    THEN Ok(<<value>>)
    ELSE Err("BoxValueError", <<value>>)

RECURSIVE Reverse(_)
Reverse(s) == IF s = <<>> THEN <<>> ELSE Append(Reverse(Tail(s)), Head(s))

\* from_ordered_values that fills the registers from the last value on.
from_ordered_values_Reversed(values) ==
    IF Len(values) > MaxRegisterSlots
    THEN Err("NonMandatoryRegistersError", <<Len(values)>>)
    ELSE Ok(<<Reverse(values)>>)

\* NonMandatoryRegisters::from_ordered_values: the values become R4, R5, ..
\* in their order, and more values than registers are an error
from_ordered_values(values) ==
    IF Len(values) > MaxRegisterSlots
    THEN Err("NonMandatoryRegistersError", <<Len(values)>>)
    ELSE Ok(<<values>>)

ErgoBoxCandidate(value, tree, tokens, registers, creation_height) ==
    [value |-> value, ergo_tree |-> tree, tokens |-> tokens,
     additional_registers |-> registers, creation_height |-> creation_height]

\* create_candidate that resolves the address before it converts the
\* registers.
create_candidate_AddressFirst(value, output_address, tokens, registers, current_height) ==
    LET obb_value == BoxValueNew(value)
        obb_registers == from_ordered_values(registers)
        obb_ergo_tree == address_string_to_ergo_tree(output_address)
    IN  IF ~IsOk(obb_value)
        THEN Err("InvalidBoxValue", <<value>>)
        ELSE IF ~IsOk(obb_ergo_tree)
             THEN Err("InvalidP2PKAddress", <<output_address>>)
             ELSE IF ~IsOk(obb_registers)
                  THEN Err("InvalidRegisterValues", <<>>)
                  ELSE Ok(<<ErgoBoxCandidate(obb_value.val[1], obb_ergo_tree.val[1],
                                             tokens, obb_registers.val[1],
                                             current_height % U32Values)>>)

create_candidate(value, output_address, tokens, registers, current_height) ==
    LET obb_value == BoxValueNew(value)
        obb_registers == from_ordered_values(registers)
        obb_ergo_tree == address_string_to_ergo_tree(output_address)
    IN  IF ~IsOk(obb_value)
        THEN Err("InvalidBoxValue", <<value>>)
        ELSE IF ~IsOk(obb_registers)
             THEN Err("InvalidRegisterValues", <<>>)
             ELSE IF ~IsOk(obb_ergo_tree)
                  THEN Err("InvalidP2PKAddress", <<output_address>>)
                  ELSE Ok(<<ErgoBoxCandidate(obb_value.val[1], obb_ergo_tree.val[1],
                                             tokens, obb_registers.val[1],
                                             current_height % U32Values)>>)

\* The arguments of create_candidate.
NanoErgs == 0..(2 * MaxVal + 1)

OutputAddresses == {"9fM1", "3WT1", "9fM2", "8UnS", "bad58"}

OutputTokens == {<<>>, <<Token(<<10>>, 1)>>, <<Token(<<11>>, 2), Token(<<10>>, 1)>>}

OutputRegisters ==
    {[k \in 1..n |-> L1] : n \in 0..(MaxRegisterSlots + 1)}
        \cup {<<I1>>, <<L2, I1>>}

BlockHeights == 0..(2 * MaxHeight + 1)

CreateCandidate ==
    /\ ret.op = "call"
    /\ ret' = [op |-> "create_candidate",
               res |-> create_candidate(arg[1], arg[2], arg[3], arg[4], arg[5]),
               pred_calls |-> 0]
    /\ UNCHANGED <<spec, arg>>

InitCandidate ==
    InitCall(NanoErgs \X OutputAddresses \X OutputTokens \X OutputRegisters
                \X BlockHeights)

NextCandidate == CreateCandidate

SpecCandidate == InitCandidate /\ [][NextCandidate]_vars

-----------------------------------------------------------------------------
\* The last call was create_candidate.
Built == ret.op = "create_candidate"

TheValue == arg[1]

TheAddress == arg[2]

TheRegisters == arg[4]

ValueInvalid == TheValue < 1 \/ TheValue > MaxVal

RegistersInvalid == Len(TheRegisters) > MaxRegisterSlots

AddressInvalid == ~IsSome(DenotedScript(TheAddress))

\* C20: create_candidate returns a candidate only when the value, the
\* registers and the address are all valid; otherwise it returns the error
\* of the first that is not, in the order value (InvalidBoxValue with the
\* value), registers (InvalidRegisterValues), address (InvalidP2PKAddress
\* with the address string), and no candidate.
C20_FirstFailingValidation ==
    Built
    => /\ IsOk(ret.res) <=> ~(ValueInvalid \/ RegistersInvalid \/ AddressInvalid)
       /\ ret.res.tag \in {"Ok", "Err"}
       /\ ValueInvalid => ret.res = Err("InvalidBoxValue", <<TheValue>>)
       /\ (~ValueInvalid /\ RegistersInvalid)
            => ret.res = Err("InvalidRegisterValues", <<>>)
       /\ (~ValueInvalid /\ ~RegistersInvalid /\ AddressInvalid)
            => ret.res = Err("InvalidP2PKAddress", <<TheAddress>>)

\* Seven registers and a string that is no address were given with a valid
\* value: the error is that of the registers.
C20_Witness ==
    /\ Built
    /\ ~ValueInvalid
    /\ Len(TheRegisters) = 7
    /\ TheAddress = "bad58"
    /\ ret.res = Err("InvalidRegisterValues", <<>>)

-----------------------------------------------------------------------------
TheTokens == arg[3]

TheHeight == arg[5]

\* The candidate that create_candidate returned.
TheCandidate == ret.res.val[1]

-----------------------------------------------------------------------------
\* C22 (as claimed): the creation height of a candidate that create_candidate
\* returns is the height given, for every height of the BlockHeight domain.
C22_HeightVerbatim ==
    (Built /\ IsOk(ret.res)) => TheCandidate.creation_height = TheHeight

-----------------------------------------------------------------------------
(* The box wrappers that derive SpecBox: ErgsBox, ErgUsdOraclePoolBox,     *)
(* AdaUsdOraclePoolBox and MathBountyBox.                                  *)

\* 1000000 nanoErgs, on the scale on which MaxVal stands for i64::MAX
ErgsBoxMinValue == 2

\* u64::MAX on that scale
U64Max == 2 * MaxVal + 1

\* SpecifiedBox::box_spec of each type
box_spec(name) ==
    CASE name = "ErgsBox" ->
            new_predicated(None, Some(Range(ErgsBoxMinValue, U64Max)), <<>>, <<>>, None)
      [] name = "ErgUsdOraclePoolBox" ->
            new_predicated(None, None, <<RegisterSpec(Some("SLong"), None)>>,
                           <<Some(TokenSpec(Range(1, 2), "0a"))>>, None)
      [] name = "AdaUsdOraclePoolBox" ->
            new_predicated(None, None, <<RegisterSpec(Some("SLong"), None)>>,
                           <<Some(TokenSpec(Range(1, 2), "0b"))>>, None)
      [] name = "MathBountyBox" ->
            new_predicated(Some("94hW"), None, <<>>, <<>>, None)

SpecBoxNames ==
    {"ErgsBox", "ErgUsdOraclePoolBox", "AdaUsdOraclePoolBox", "MathBountyBox"}

\* The struct of a wrapper type around a box.
Wrapper(name, b) == [name |-> name, ergo_box |-> b]

\* The derived constructor that wraps the box without verifying it.
new_Unverified(name, b) == Ok(<<Wrapper(name, b)>>)

\* The derived constructor Self::new
WrapVerified(name, b, verified) ==
    IF IsOk(verified) THEN Ok(<<Wrapper(name, b)>>) ELSE verified

new(name, b) == WrapVerified(name, b, verify_box(box_spec(name), b).res)

\* The constructor of the WASM interface: the error becomes a JsValue
MapErrToJsValue(r) == IF IsOk(r) THEN r ELSE Err("JsValue", <<r.err>>)

w_new(name, wb) == MapErrToJsValue(new(name, wb))

RECURSIVE WrapBoxes(_, _, _, _)
RECURSIVE PushWrapped(_, _, _, _, _)
\* for b in boxes { specified_boxes.push(Self::new(&b)?) } from box i on
WrapBoxes(name, boxes, i, specified_boxes) ==
    IF i > Len(boxes)
    THEN Ok(<<specified_boxes>>)
    ELSE PushWrapped(name, boxes, i, specified_boxes, new(name, boxes[i]))

\* specified_boxes.push(r?) and the rest of the loop
PushWrapped(name, boxes, i, specified_boxes, r) ==
    IF IsOk(r)
    THEN WrapBoxes(name, boxes, i + 1, Append(specified_boxes, r.val[1]))
    ELSE r

\* The boxes of box_spec.process_explorer_response(body)?, each wrapped.
WrapFound(name, boxes) ==
    IF IsOk(boxes) THEN WrapBoxes(name, boxes.val[1], 1, <<>>) ELSE boxes

process_explorer_response_custom(name, explorer_response_body, custom_spec) ==
    WrapFound(name, process_explorer_response(custom_spec, explorer_response_body).res)

\* ExplorerFindable::process_explorer_response of a wrapper type
process_explorer_response_of(name, explorer_response_body) ==
    process_explorer_response_custom(name, explorer_response_body, box_spec(name))

\* ErgsBox::convert_from_ergo_boxes pushes ErgsBox::new(&unwrapped_box)? for
\* each box: the loop of the derived constructors, on ErgsBox.
convert_from_ergo_boxes(ergo_boxes) == WrapBoxes("ErgsBox", ergo_boxes, 1, <<>>)

\* encoding::deserialize_p2s_to_ergo_tree
deserialize_p2s_to_ergo_tree(p2s_address) ==
    LET address == parse_address_from_str("Mainnet", p2s_address)
    IN  IF IsOk(address) /\ p2s_address \in P2SAddresses /\ address.val[1].script_ok
        THEN Ok(<<address.val[1].tree>>)
        ELSE Err("FailedToDeserialize", <<p2s_address>>)

\* Result::ok
ResultOk(r) == IF IsOk(r) THEN Some(r.val[1]) ELSE None

\* Returns an Option<ErgsBox>.
create_placeholder_ergs_box(nano_ergs) ==
    LET placeholder_tree == deserialize_p2s_to_ergo_tree("2iHk")
        box_value == BoxValueNew(nano_ergs)
    IN  IF ~IsOk(placeholder_tree) \/ ~IsOk(box_value)
        THEN None
        ELSE ResultOk(new("ErgsBox",
                          ErgoBox(placeholder_tree.val[1], box_value.val[1], <<>>, <<>>)))

\* Boxes, response bodies and custom specs of the calls on wrapper types.
WrappedBoxes ==
    {ErgoBox(t, v, rs, ts) :
        t \in {"tree1", "bounty_tree"}, v \in 1..MaxVal,
        rs \in {<<>>, <<L1>>, <<I1>>},
        ts \in {<<>>, <<Token(<<10>>, 1)>>, <<Token(<<11>>, 1)>>, <<Token(<<10>>, 2)>>}}

FoundBoxes ==
    {ErgoBox("tree1", 1, <<>>, <<>>),
     ErgoBox("bounty_tree", 2, <<>>, <<>>),
     ErgoBox("tree1", 2, <<L1>>, <<Token(<<10>>, 1)>>)}

FoundRecords == {JsonNull} \cup {JsonBox(b) : b \in FoundBoxes}

FoundBodies ==
    {NotJson, JsonBody(None)}
        \cup {JsonBody(Some(items)) : items \in SeqUpTo(FoundRecords, MaxItems)}

CustomSpecs ==
    {new_predicated(a, vr, <<>>, <<>>, None) :
        a \in {None, Some("9fM1")},
        vr \in {None, Some(Range(1, 2)), Some(Range(2, 3))}}

\* The calls <<spec, arg>>: spec is the BoxSpec that the boxes are first
\* verified against, arg the argument, the wrapper type and the function.
NewCalls ==
    {<<box_spec(name), <<b, name, fn>>>> :
        b \in WrappedBoxes, name \in SpecBoxNames, fn \in {"new", "w_new"}}

ExplorerCalls ==
    {<<box_spec(name), <<body, name, "process_explorer_response">>>> :
        body \in FoundBodies, name \in SpecBoxNames}
    \cup {<<custom, <<body, name, "process_explorer_response_custom">>>> :
            body \in FoundBodies, name \in SpecBoxNames, custom \in CustomSpecs}

ConvertCalls ==
    {<<box_spec("ErgsBox"), <<boxes, "ErgsBox", "convert_from_ergo_boxes">>>> :
        boxes \in SeqUpTo(FoundBoxes, MaxItems)}

PlaceholderCalls ==
    {<<box_spec("ErgsBox"), <<nano_ergs, "ErgsBox", "create_placeholder_ergs_box">>>> :
        nano_ergs \in NanoErgs}

InitWrappers ==
    /\ \/ \E call \in NewCalls : spec = call[1] /\ arg = call[2]
       \/ \E call \in ExplorerCalls : spec = call[1] /\ arg = call[2]
       \/ \E call \in ConvertCalls : spec = call[1] /\ arg = call[2]
       \/ \E call \in PlaceholderCalls : spec = call[1] /\ arg = call[2]
    /\ ret = [op |-> "call", res |-> Ok(Unit), pred_calls |-> 0]

\* The call of function fn is about to be made.
Calling(fn) == ret.op = "call" /\ arg[3] = fn

\* No spec of these calls holds a predicate: pred_calls stays 0.
Returned(fn, res) ==
    /\ ret' = [op |-> fn, res |-> res, pred_calls |-> 0]
    /\ UNCHANGED <<spec, arg>>

New == Calling("new") /\ Returned("new", new(arg[2], arg[1]))

WNew == Calling("w_new") /\ Returned("w_new", w_new(arg[2], arg[1]))

ProcessExplorerResponseOf ==
    /\ Calling("process_explorer_response")
    /\ Returned("ExplorerFindable::process_explorer_response",
                process_explorer_response_of(arg[2], arg[1]))

ProcessExplorerResponseCustom ==
    /\ Calling("process_explorer_response_custom")
    /\ Returned("process_explorer_response_custom",
                process_explorer_response_custom(arg[2], arg[1], spec))

ConvertFromErgoBoxes ==
    /\ Calling("convert_from_ergo_boxes")
    /\ Returned("convert_from_ergo_boxes", convert_from_ergo_boxes(arg[1]))

CreatePlaceholderErgsBox ==
    /\ Calling("create_placeholder_ergs_box")
    /\ Returned("create_placeholder_ergs_box",
                Ok(<<create_placeholder_ergs_box(arg[1])>>))

NextWrappers ==
    \/ New
    \/ WNew
    \/ ProcessExplorerResponseOf
    \/ ProcessExplorerResponseCustom
    \/ ConvertFromErgoBoxes
    \/ CreatePlaceholderErgsBox

SpecWrappers == InitWrappers /\ [][NextWrappers]_vars

-----------------------------------------------------------------------------
\* The wrapper type of the call.
TheName == arg[2]

\* The wrappers that the last call handed back.
ReturnedWrappers ==
    IF ret.op = "call" \/ ~IsOk(ret.res)
    THEN {}
    ELSE IF ret.op \in {"new", "w_new"}
         THEN {ret.res.val[1]}
         ELSE {ret.res.val[1][k] : k \in 1..Len(ret.res.val[1])}

\* C23: every wrapper that a constructor of a wrapper type hands back is of
\* that type and wraps a box that passes verify_box of the box_spec of the
\* type.
C23_NeverUnverified ==
    \A w \in ReturnedWrappers :
        /\ w.name = TheName
        /\ IsOk(verify_box(box_spec(w.name), w.ergo_box).res)

\* Wrappers were handed back for a response filtered by a custom spec that
\* is not the spec of the type.
C23_Witness ==
    /\ ret.op = "process_explorer_response_custom"
    /\ spec # box_spec(TheName)
    /\ Cardinality(ReturnedWrappers) = 2

-----------------------------------------------------------------------------
\* The last call was process_explorer_response_custom with custom spec spec.
ProcessedCustom == ret.op = "process_explorer_response_custom"

\* C24 (as claimed): for a well-formed response body and every custom spec,
\* process_explorer_response_custom returns Ok with one wrapper for each
\* response box that passes verify_box of the custom spec, in response order.
C24_FiltersByCustomSpec ==
    (ProcessedCustom /\ TheBody.parses
        /\ \A i \in ScannedPositions : TheItem(i).kind = "box")
    => /\ IsOk(ret.res)
       /\ Len(ret.res.val[1]) = Cardinality(PassingPositions)
       /\ \A i \in PassingPositions :
            ret.res.val[1][Cardinality({k \in PassingPositions : k <= i})]
                = Wrapper(TheName, Unwrap(TheItem(i).box))

-----------------------------------------------------------------------------
(* The methods of BoxSpec that return a modified copy. Each takes &self:   *)
(* the receiver stays as it is and the copy is the value returned.         *)

\* modified_value_range that leaves the custom predicate out of the copy.
modified_value_range_NoPredicate(self, value_range) ==
    [self EXCEPT !.value_range = value_range, !.predicate = None]

modified_value_range(self, value_range) == [self EXCEPT !.value_range = value_range]

modified_registers(self, registers) == [self EXCEPT !.registers = registers]

modified_tokens(self, tokens) == [self EXCEPT !.tokens = tokens]

modified_predicate(self, predicate) == [self EXCEPT !.predicate = predicate]

\* Specs, arguments and boxes of the calls that modify.
SomeAddresses == {None, Some("9fM1")}

SomeValueRanges == {None, Some(Range(1, 2))}

SomeRegisters == {<<>>, <<RegisterSpec(Some("SLong"), None)>>}

SomeTokens == {<<>>, <<Some(TokenSpec(Range(1, 2), "0a"))>>}

SomePredicates == {None, Some("value_is_one")}

SomeSpecs ==
    {new_predicated(a, vr, rs, ts, p) :
        a \in SomeAddresses, vr \in SomeValueRanges, rs \in SomeRegisters,
        ts \in SomeTokens, p \in SomePredicates}

SomeBoxes ==
    {ErgoBox(t, v, <<>>, ts) :
        t \in {"tree1", "tree2"}, v \in {1, 2}, ts \in {<<>>, <<Token(<<10>>, 1)>>}}

\* A call of a modified_ method on the spec in hand: the copy is returned.
Modified(op, argument, copy) ==
    /\ arg' = <<argument>>
    /\ ret' = [op |-> op, res |-> Ok(<<copy>>), pred_calls |-> 0]
    /\ UNCHANGED spec

ModifiedAddressCopy ==
    \E address \in SomeAddresses :
        Modified("modified_address", address, modified_address(spec, address))

ModifiedValueRange ==
    \E value_range \in SomeValueRanges :
        Modified("modified_value_range", value_range,
                 modified_value_range(spec, value_range))

ModifiedRegisters ==
    \E registers \in SomeRegisters :
        Modified("modified_registers", registers, modified_registers(spec, registers))

ModifiedTokens ==
    \E tokens \in SomeTokens :
        Modified("modified_tokens", tokens, modified_tokens(spec, tokens))

ModifiedPredicate ==
    \E predicate \in SomePredicates :
        Modified("modified_predicate", predicate, modified_predicate(spec, predicate))

ModifyOps ==
    {"modified_address", "modified_value_range", "modified_registers",
     "modified_tokens", "modified_predicate"}

\* The caller goes on with the copy that the last call returned.
UseCopy ==
    /\ ret.op \in ModifyOps
    /\ spec' = ret.res.val[1]
    /\ arg' = <<>>
    /\ ret' = [op |-> "new_predicated", res |-> Ok(Unit), pred_calls |-> 0]

InitModify == InitWith(SomeSpecs)

NextModify ==
    \/ ModifiedAddressCopy
    \/ ModifiedValueRange
    \/ ModifiedRegisters
    \/ ModifiedTokens
    \/ ModifiedPredicate
    \/ UseCopy
    \/ VerifyBox(SomeBoxes)
    \/ ExplorerEndpoint

SpecModify == InitModify /\ [][NextModify]_vars

-----------------------------------------------------------------------------
\* The copy that the last modified_ call returned.
TheCopy == ret.res.val[1]

\* The field that a modified_ method names.
NamedField(op) ==
    CASE op = "modified_address" -> "address"
      [] op = "modified_value_range" -> "value_range"
      [] op = "modified_registers" -> "registers"
      [] op = "modified_tokens" -> "tokens"
      [] op = "modified_predicate" -> "predicate"

\* The copy has the argument in the named field and the fields of the
\* receiver everywhere else.
CopyDiffersInNamedField ==
    ret.op \in ModifyOps
    => /\ DOMAIN TheCopy = DOMAIN spec
       /\ TheCopy[NamedField(ret.op)] = arg[1]
       /\ \A f \in DOMAIN spec \ {NamedField(ret.op)} : TheCopy[f] = spec[f]

\* A modified_ call leaves the receiver as it was, so that it verifies every
\* box and answers every endpoint request as before the call.
ReceiverStays ==
    ret'.op \in ModifyOps
    => /\ spec' = spec
       /\ \A b \in SomeBoxes : verify_box(spec', b) = verify_box(spec, b)
       /\ \A url \in ExplorerUrls :
            explorer_endpoint(spec', url) = explorer_endpoint(spec, url)

\* C25: each of modified_address, modified_value_range, modified_registers,
\* modified_tokens and modified_predicate returns a spec equal to the
\* receiver in every field but the named one, which holds the argument, and
\* leaves the receiver unchanged, with the same verify_box and
\* explorer_endpoint results as before.
C25_ModifyReturnsCopy == [](CopyDiffersInNamedField) /\ [][ReceiverStays]_vars

\* A spec with a predicate and a token entry was given another value range.
C25_Witness ==
    /\ ret.op = "modified_value_range"
    /\ spec.predicate = Some("value_is_one")
    /\ spec.tokens # <<>>
    /\ TheCopy.value_range # spec.value_range

-----------------------------------------------------------------------------
(* tx_creation::unsigned_transaction_to_assembler_spec and                 *)
(* TxAssemblerSpecBuilder::build_assembler_spec. The JSON object built is  *)
(* a record; a top-level key that was never written is None. The           *)
(* registers object of a request is a function of the keys written.        *)

UnsignedTransaction(inputs, data_inputs, output_candidates) ==
    [inputs |-> inputs, data_inputs |-> data_inputs,
     output_candidates |-> output_candidates]

\* Constant::base16_str: the type code and the zigzag encoding of the value
base16_str(c) ==
    (IF c.tpe = "SLong" THEN "05" ELSE "04") \o Base16(<<2 * c.v>>)

\* encoding::serialize_p2s_from_ergo_tree
serialize_p2s_from_ergo_tree(tree) ==
    CASE tree = "fee_tree" -> "2iHk"
      [] tree = "bounty_tree" -> "94hW"
      [] OTHER -> "p2s_" \o tree

\* encoding::serialize_address_from_ergo_tree: the mainnet address of the
\* script, a P2PK address for the script of a public key
serialize_address_from_ergo_tree(tree) ==
    CASE tree = "tree1" -> Ok(<<"9fM1">>)
      [] tree = "tree2" -> Ok(<<"9fM2">>)
      [] tree \in {"fee_tree", "bounty_tree"} -> Ok(<<serialize_p2s_from_ergo_tree(tree)>>)
      [] OTHER -> Err("FailedToSerialize", <<"Failed to serialize ErgoTree">>)

\* The key written for the register at index y + 1 that starts with R5.
RegisterKey_FromR5(y) == <<"R5", "R6", "R7", "R8", "R9", "R4">>[y]

\* The key written for the register at index y, counted from 1 here.
RegisterKey(y) == <<"R4", "R5", "R6", "R7", "R8", "R9">>[y]

\* tx_spec["requests"][i]["registers"] after the loop over the registers
RegistersJson(registers) ==
    [key \in {RegisterKey(y) : y \in 1..Len(registers)} |->
        base16_str(registers[CHOOSE y \in 1..Len(registers) : RegisterKey(y) = key])]

\* tx_spec["requests"][i]["assets"] after the loop over the tokens
AssetsJson(tokens) ==
    [n \in 1..Len(tokens) |->
        [tokenId |-> Base16(tokens[n].token_id), amount |-> tokens[n].amount]]

RequestJson(output, address) ==
    [value |-> output.value, address |-> address,
     assets |-> AssetsJson(output.tokens),
     registers |-> RegistersJson(output.additional_registers)]

\* One pass of the loop over the output candidates: the request of the
\* output, then the fee, the inputs and the data inputs.
AssemblerPass(unsigned_tx, transaction_fee, tx_spec, request) ==
    [tx_spec EXCEPT
        !.requests = Append(@, request),
        !.fee = Some(transaction_fee),
        !.inputs = IF Len(unsigned_tx.inputs) = 0 THEN @ ELSE Some(unsigned_tx.inputs),
        !.dataInputs = IF Len(unsigned_tx.data_inputs) = 0 THEN @
                       ELSE Some(unsigned_tx.data_inputs)]

\* object! { "requests": [] }
EmptyTxSpec == [requests |-> <<>>, fee |-> None, inputs |-> None, dataInputs |-> None]

RECURSIVE AssemblerLoop(_, _, _, _)
AssemblerLoop(unsigned_tx, transaction_fee, i, tx_spec) ==
    IF i > Len(unsigned_tx.output_candidates)
    THEN tx_spec
    ELSE LET output == unsigned_tx.output_candidates[i]
             request == RequestJson(output, serialize_p2s_from_ergo_tree(output.ergo_tree))
         IN  AssemblerLoop(unsigned_tx, transaction_fee, i + 1,
                           AssemblerPass(unsigned_tx, transaction_fee, tx_spec, request))

unsigned_transaction_to_assembler_spec(unsigned_tx, transaction_fee) ==
    AssemblerLoop(unsigned_tx, transaction_fee, 1, EmptyTxSpec)

RECURSIVE BuilderLoop(_, _, _, _)
BuilderLoop(unsigned_tx, transaction_fee, i, tx_spec) ==
    IF i > Len(unsigned_tx.output_candidates)
    THEN tx_spec
    ELSE LET output == unsigned_tx.output_candidates[i]
             address_string == serialize_address_from_ergo_tree(output.ergo_tree)
             request == RequestJson(output,
                            IF IsOk(address_string) THEN address_string.val[1]
                            ELSE serialize_p2s_from_ergo_tree(output.ergo_tree))
         IN  BuilderLoop(unsigned_tx, transaction_fee, i + 1,
                         AssemblerPass(unsigned_tx, transaction_fee, tx_spec, request))

build_assembler_spec(self, transaction_fee) ==
    BuilderLoop(self, transaction_fee, 1, EmptyTxSpec)

\* Unsigned transactions and fees of the assembler spec.
OutputCandidates ==
    {ErgoBoxCandidate(1, t, ts, rs, 0) :
        t \in {"tree1", "fee_tree"},
        ts \in {<<>>, <<Token(<<10>>, 1)>>},
        rs \in {<<>>, <<L1>>, <<L2, I1>>, <<L1, L2, I1, L1, L2, I1>>}}

InputIds == {<<>>, <<"b1">>, <<"b1", "b2">>, <<"b2", "b1">>}

DataInputIds == {<<>>, <<"d1">>}

UnsignedTransactions ==
    {UnsignedTransaction(inputs, data_inputs, output_candidates) :
        inputs \in InputIds, data_inputs \in DataInputIds,
        output_candidates \in SeqUpTo(OutputCandidates, 2)}

TransactionFees == {1, 2}

UnsignedTransactionToAssemblerSpec ==
    /\ ret.op = "call"
    /\ ret' = [op |-> "unsigned_transaction_to_assembler_spec",
               res |-> Ok(<<unsigned_transaction_to_assembler_spec(arg[1], arg[2])>>),
               pred_calls |-> 0]
    /\ UNCHANGED <<spec, arg>>

BuildAssemblerSpec ==
    /\ ret.op = "call"
    /\ ret' = [op |-> "build_assembler_spec",
               res |-> Ok(<<build_assembler_spec(arg[1], arg[2])>>),
               pred_calls |-> 0]
    /\ UNCHANGED <<spec, arg>>

InitAssembler == InitCall(UnsignedTransactions \X TransactionFees)

NextAssembler ==
    \/ UnsignedTransactionToAssemblerSpec
    \/ BuildAssemblerSpec

SpecAssembler == InitAssembler /\ [][NextAssembler]_vars

-----------------------------------------------------------------------------
\* The last call built an assembler spec.
Assembled == ret.op \in {"unsigned_transaction_to_assembler_spec", "build_assembler_spec"}

TheTx == arg[1]

TheFee == arg[2]

TheTxSpec == ret.res.val[1]

\* C26 (as claimed): the assembler spec of every unsigned transaction has the
\* top-level field fee with the transaction fee given and the top-level
\* array inputs with the box ids of the inputs in order, whatever the number
\* of output candidates.
C26_FeeAndInputsAlways ==
    Assembled
    => /\ TheTxSpec.fee = Some(TheFee)
       /\ TheTxSpec.inputs = Some(TheTx.inputs)

-----------------------------------------------------------------------------
\* C27: request i of the assembler spec is that of output candidate i, and
\* its registers object has the key R4 for the first register of the
\* candidate, R5 for the second, up to R9 for the sixth, each with the
\* base16 string of that register, and no other key.
C27_PositionalRegisterKeys ==
    Assembled
    => /\ Len(TheTxSpec.requests) = Len(TheTx.output_candidates)
       /\ \A i \in 1..Len(TheTx.output_candidates) :
            LET held == TheTx.output_candidates[i].additional_registers
                written == TheTxSpec.requests[i].registers
                Key == [k \in 0..5 |->
                          CASE k = 0 -> "R4" [] k = 1 -> "R5" [] k = 2 -> "R6"
                            [] k = 3 -> "R7" [] k = 4 -> "R8" [] k = 5 -> "R9"]
            IN  /\ DOMAIN written = {Key[k] : k \in 0..(Len(held) - 1)}
                /\ \A k \in 0..(Len(held) - 1) :
                     written[Key[k]] = base16_str(held[k + 1])
                /\ TheTxSpec.requests[i].value = TheTx.output_candidates[i].value
                /\ TheTxSpec.requests[i].assets
                     = AssetsJson(TheTx.output_candidates[i].tokens)

\* The second request has the six keys and the first has none.
C27_Witness ==
    /\ Assembled
    /\ Len(TheTxSpec.requests) = 2
    /\ DOMAIN TheTxSpec.requests[1].registers = {}
    /\ DOMAIN TheTxSpec.requests[2].registers = {"R4", "R5", "R6", "R7", "R8", "R9"}
    /\ TheTxSpec.requests[2].registers["R4"] = "0502"
    /\ TheTxSpec.requests[2].registers["R6"] = "0402"
    /\ TheTxSpec.requests[2].registers["R9"] = "0402"

-----------------------------------------------------------------------------
(* Calls of verify_box, explorer_endpoint and process_explorer_response    *)
(* made in any order, on a spec and on the specs got from it.              *)

ShortBodies ==
    {NotJson, JsonBody(None)}
        \cup {JsonBody(Some(items)) : items \in SeqUpTo(JsonRecords, 2)}

MatcherSpecs ==
    {new_predicated(a, vr, <<>>, <<>>, p) :
        a \in SomeAddresses, vr \in SomeValueRanges, p \in SomePredicates}

InitMatcher == InitWith(MatcherSpecs)

NextMatcher ==
    \/ VerifyBox(ExplorerBoxes)
    \/ ExplorerEndpoint
    \/ ProcessExplorerResponse(ShortBodies)
    \/ ModifiedAddress(SomeAddresses)

SpecMatcher == InitMatcher /\ [][NextMatcher]_vars

-----------------------------------------------------------------------------
\* The result of verify_box is that of the same call on a spec and a box on
\* which no call was made before.
ResultOfArgumentsOnly ==
    Verified => /\ ret.res = verify_box(spec, TheBox).res
                /\ ret.pred_calls = verify_box(spec, TheBox).pred_calls

\* A call that reads leaves the spec as it is, and verify_box called again on
\* the same spec and box returns what it returned.
NothingRemembered ==
    /\ ret'.op \in {"verify_box", "explorer_endpoint", "process_explorer_response"}
         => spec' = spec
    /\ (Verified /\ ret'.op = "verify_box" /\ arg' = arg) => ret' = ret

-----------------------------------------------------------------------------
\* The body cut before its first null record.
ScannedBody ==
    JsonBody(Some(SubSeq(Unwrap(TheBody.items), 1, Cardinality(ScannedPositions))))

\* C29: process_explorer_response reads the items from the first on and
\* stops at the first null or absent one: the records after it are not
\* parsed and not returned, so that the call fails only for a malformed
\* record before it, and a body without items gives Ok of the empty list.
C29_StopsAtFirstNull ==
    (Processed /\ TheBody.parses)
    => /\ IsOk(ret.res) <=> \A i \in ScannedPositions : TheItem(i).kind = "box"
       /\ IsSome(TheBody.items)
            => ret.res = process_explorer_response(spec, ScannedBody).res
       /\ IsOk(ret.res) => Len(ret.res.val[1]) <= Cardinality(ScannedPositions)
       /\ ~IsSome(TheBody.items) => ret.res = Ok(<<<<>>>>)

\* A malformed record after a null did not make the call fail: the box
\* before the null was returned.
C29_Witness ==
    /\ Processed
    /\ TheBody.parses
    /\ IsSome(TheBody.items)
    /\ Len(Unwrap(TheBody.items)) = 3
    /\ TheItem(1).kind = "box"
    /\ TheItem(2).kind = "null"
    /\ TheItem(3).kind = "bad"
    /\ ret.res = Ok(<<<<Unwrap(TheItem(1).box)>>>>)

-----------------------------------------------------------------------------
(* The actions of the Math Bounty protocol and the output builders they    *)
(* use. A u64 subtraction below zero panics in a debug build and wraps in  *)
(* a release build: the build is an input of the call.                     *)

\* u64 - u64
SubU64(a, b, build) ==
    IF a >= b
    THEN Ok(<<a - b>>)
    ELSE IF build = "debug"
         THEN Panic("attempt to subtract with overflow")
         ELSE Ok(<<(a + U64Max + 1 - b) % (U64Max + 1)>>)

\* Result::unwrap
UnwrapResult(r) ==
    IF IsOk(r) THEN r ELSE Panic("called Result::unwrap() on an Err value")

\* WrappedBox::as_unsigned_input: the input names the box by its id, the
\* digest of its content
as_unsigned_input(wrapped) == [box_id |-> wrapped.ergo_box]

\* WrappedBox::nano_ergs
nano_ergs(wrapped) == wrapped.ergo_box.value

\* TxFeeBox::output_candidate
TxFeeBox_output_candidate(tx_fee, current_height) ==
    create_candidate(tx_fee, "2iHk", <<>>, <<>>, current_height)

\* ChangeBox::output_candidate
ChangeBox_output_candidate(tokens, value, user_address, current_height) ==
    create_candidate(value, user_address, tokens, <<>>, current_height)

\* Constant::from(math_problem_answer as i64)
AnswerConstant(math_problem_answer) == [tpe |-> "SLong", v |-> math_problem_answer]

RECURSIVE FirstPanic(_, _)
\* The first of the results, from result i on, that is no Ok.
FirstPanic(results, i) ==
    IF IsOk(results[i]) THEN FirstPanic(results, i + 1) ELSE results[i]

\* UnsignedTransaction::new over the unwrapped candidates, which are made one
\* after the other: the first failing unwrap ends the action.
TransactionOf(tx_inputs, candidates) ==
    IF \A i \in DOMAIN candidates : IsOk(candidates[i])
    THEN Ok(<<UnsignedTransaction(tx_inputs, <<>>,
                                  [i \in DOMAIN candidates |-> candidates[i].val[1]])>>)
    ELSE FirstPanic(candidates, 1)

\* action_solve_math_problem from the bounty after the fee on
SolveWithBounty(bounty_after_fee, math_problem_answer, tx_inputs, current_height, transaction_fee, user_address) ==
    IF ~IsOk(bounty_after_fee)
    THEN bounty_after_fee
    ELSE TransactionOf(tx_inputs,
            <<UnwrapResult(create_candidate(bounty_after_fee.val[1], user_address, <<>>,
                                            <<AnswerConstant(math_problem_answer)>>,
                                            current_height)),
              UnwrapResult(TxFeeBox_output_candidate(transaction_fee, current_height))>>)

action_solve_math_problem(math_problem_answer, math_bounty_box, current_height, transaction_fee, ergs_box_for_fee, user_address, build) ==
    SolveWithBounty(SubU64(nano_ergs(math_bounty_box), transaction_fee, build),
                    math_problem_answer,
                    <<as_unsigned_input(math_bounty_box), as_unsigned_input(ergs_box_for_fee)>>,
                    current_height, transaction_fee, user_address)

\* a - b, when a is there
ThenSubU64(a, b, build) == IF IsOk(a) THEN SubU64(a.val[1], b, build) ELSE a

\* action_bootstrap_math_bounty_box from the change on
BootstrapWithChange(total_change, bounty_amount_in_nano_ergs, tx_inputs, current_height, transaction_fee, user_address) ==
    IF ~IsOk(total_change)
    THEN total_change
    ELSE TransactionOf(tx_inputs,
            <<UnwrapResult(create_candidate(bounty_amount_in_nano_ergs, "94hW", <<>>, <<>>,
                                            current_height)),
              UnwrapResult(TxFeeBox_output_candidate(transaction_fee, current_height)),
              UnwrapResult(ChangeBox_output_candidate(<<>>, total_change.val[1],
                                                      user_address, current_height))>>)

action_bootstrap_math_bounty_box(bounty_amount_in_nano_ergs, ergs_box_for_bounty, current_height, transaction_fee, ergs_box_for_fee, user_address, build) ==
    BootstrapWithChange(
        ThenSubU64(SubU64(nano_ergs(ergs_box_for_bounty) + nano_ergs(ergs_box_for_fee),
                          bounty_amount_in_nano_ergs, build),
                   transaction_fee, build),
        bounty_amount_in_nano_ergs,
        <<as_unsigned_input(ergs_box_for_bounty), as_unsigned_input(ergs_box_for_fee)>>,
        current_height, transaction_fee, user_address)

\* The wrappers of a type around the boxes that its constructor accepts.
WrappersOf(name, boxes) ==
    {new(name, b).val[1] : b \in {b \in boxes : IsOk(new(name, b))}}

PlainBoxes ==
    {ErgoBox(t, v, <<>>, <<>>) : t \in {"tree1", "bounty_tree"}, v \in 1..MaxVal}

Builds == {"debug", "release"}

UserAddresses == {"9fM1", "bad58"}

\* arg is <<action, build, amount or answer, first box, height, fee, box for
\* the fee, address of the user>>
BountyCalls ==
    ({"action_solve_math_problem"} \X Builds \X {1, 2}
        \X WrappersOf("MathBountyBox", PlainBoxes) \X {0, 1} \X NanoErgs
        \X WrappersOf("ErgsBox", PlainBoxes) \X UserAddresses)
    \cup
    ({"action_bootstrap_math_bounty_box"} \X Builds \X NanoErgs
        \X WrappersOf("ErgsBox", PlainBoxes) \X {0, 1} \X NanoErgs
        \X WrappersOf("ErgsBox", PlainBoxes) \X UserAddresses)

ActionSolveMathProblem ==
    /\ ret.op = "call"
    /\ arg[1] = "action_solve_math_problem"
    /\ ret' = [op |-> "action_solve_math_problem",
               res |-> action_solve_math_problem(arg[3], arg[4], arg[5], arg[6],
                                                 arg[7], arg[8], arg[2]),
               pred_calls |-> 0]
    /\ UNCHANGED <<spec, arg>>

ActionBootstrapMathBountyBox ==
    /\ ret.op = "call"
    /\ arg[1] = "action_bootstrap_math_bounty_box"
    /\ ret' = [op |-> "action_bootstrap_math_bounty_box",
               res |-> action_bootstrap_math_bounty_box(arg[3], arg[4], arg[5], arg[6],
                                                        arg[7], arg[8], arg[2]),
               pred_calls |-> 0]
    /\ UNCHANGED <<spec, arg>>

InitBounty == InitCall(BountyCalls)

NextBounty ==
    \/ ActionSolveMathProblem
    \/ ActionBootstrapMathBountyBox

SpecBounty == InitBounty /\ [][NextBounty]_vars

-----------------------------------------------------------------------------
\* The last call was an action of the Math Bounty protocol.
Acted == ret.op \in {"action_solve_math_problem", "action_bootstrap_math_bounty_box"}

RECURSIVE SumOfValues(_)
SumOfValues(candidates) ==
    IF candidates = <<>>
    THEN 0
    ELSE Head(candidates).value + SumOfValues(Tail(candidates))

\* The nanoErgs of the two boxes that the action spends.
InputValue == arg[4].ergo_box.value + arg[7].ergo_box.value

\* C30 (as claimed): the output candidates of an unsigned transaction that
\* action_bootstrap_math_bounty_box or action_solve_math_problem returns hold
\* together the nanoErgs of the boxes used as its inputs.
C30_ValueConserved ==
    (Acted /\ IsOk(ret.res))
    => SumOfValues(ret.res.val[1].output_candidates) = InputValue

====
